---- MODULE Spec2Model ----
(***************************************************************************)
(* A model of src/src/scraper.py: the fetcher ACPScraper._get, the         *)
(* fetch_* wrappers, the pagination walker, _fix_capped_agdp, the numeric  *)
(* fields of _merge_agent and the orchestrator scrape_all with its         *)
(* semaphore-bounded fan-out.                                              *)
(*                                                                         *)
(* The specifications share the variables:                                 *)
(*   Spec       one invocation of scrape_all, the upstream API being the   *)
(*              environment (its answers are chosen when a request is made)*)
(*   SpecGet    one call of _get against an arbitrary upstream behaviour   *)
(*   SpecMerge  one call of _fix_capped_agdp / _merge_agent on arbitrary   *)
(*              partial records                                            *)
(*   SpecFanout scrape_all from the start of its fan-out, against fixed    *)
(*              upstream answers; FairFanout adds the event loop's fairness*)
(***************************************************************************)
EXTENDS Integers, Sequences, FiniteSets, TLC

(***************************************************************************)
(* Bounds of the model.                                                    *)
(***************************************************************************)
\* SpecGet draws max_retries from 0..MaxRetries.
MaxRetries == 3
\* Agent ids are 0..MaxId.
MaxId == 1
\* The upstream leaderboard serves at most this many full pages.
MaxFullPages == 1
\* Spec draws the configured concurrency from 1..MaxConcurrency.
MaxConcurrency == 2

(***************************************************************************)
(* Program constants.                                                      *)
(***************************************************************************)
\* scraper_cfg.get("max_retries", 3)
default_max_retries == 3
\* page_size = 100 in fetch_all_metrics_pages
page_size == 100

(***************************************************************************)
(* Python values.  None is a value of its own; a JSON object (dict) is a   *)
(* TLA+ record whose DOMAIN is the set of keys present.                    *)
(***************************************************************************)
None == [kind |-> "None"]

\* dict.get(key, default)
Get(r, key, default) == IF key \in DOMAIN r THEN r[key] ELSE default

\* Amounts of money are decimal numbers with two places, kept as whole units
\* and cents (99,999,999.99 in cents does not fit TLC's integers).  float()
\* of such a number is exact, so it keeps both parts.
Amt(w, c) == [whole |-> w, cents |-> c]
Zero == Amt(0, 0)
AmtGT(a, b) == a.whole > b.whole \/ (a.whole = b.whole /\ a.cents > b.cents)
AmtGE(a, b) == a.whole > b.whole \/ (a.whole = b.whole /\ a.cents >= b.cents)

\* Python truthiness of a value that is None or an amount, and `x or y`.
Truthy(x) == x # None /\ x # Zero
Or(x, y) == IF Truthy(x) THEN x ELSE y

(***************************************************************************)
(* What the upstream answers to one HTTP attempt: an exception (network    *)
(* error, timeout, undecodable body), or a status and a decoded body.      *)
(* A body is a JSON object with or without the "data" key, or a JSON       *)
(* number (a truthy value that is no container).                           *)
(***************************************************************************)
Obj(data) == [kind |-> "object", has_data |-> TRUE, data |-> data]
ObjNoData == [kind |-> "object", has_data |-> FALSE]
Scalar == [kind |-> "number"]

Ok(body) == [exc |-> FALSE, status |-> 200, body |-> body]
HttpError(status) == [exc |-> FALSE, status |-> status, body |-> None]
Exc == [exc |-> TRUE, status |-> 0, body |-> None]

(***************************************************************************)
(* ACPScraper._get: the retry loop, run against the sequence `outs` of the *)
(* upstream's answers to the successive attempts.  The result carries the  *)
(* returned value, the number of attempts made and the sleeps taken.       *)
(***************************************************************************)
RECURSIVE get_loop(_, _, _, _)
get_loop(attempt, outs, max_retries, sleeps) ==
    IF attempt >= max_retries
    THEN [result |-> None, attempts |-> attempt, sleeps |-> sleeps, raised |-> FALSE]
    ELSE LET resp == outs[attempt + 1]
         IN  IF ~resp.exc /\ resp.status = 200
             THEN [result |-> resp.body, attempts |-> attempt + 1,
                   sleeps |-> sleeps, raised |-> FALSE]
             ELSE get_loop(attempt + 1, outs, max_retries,
                           IF attempt < max_retries - 1
                           THEN Append(sleeps, 2 ^ attempt)
                           ELSE sleeps)

\* A slip in the loop bound: one attempt more than max_retries.
get_one_attempt_more(outs, max_retries) == get_loop(0, outs, max_retries + 1, <<>>)

_get(outs, max_retries) == get_loop(0, outs, max_retries, <<>>)

(***************************************************************************)
(* The fetch_* wrappers, applied to the value _get returned.  Each yields  *)
(* Return(value), or Raise when the Python code raises: `"data" in result` *)
(* is a TypeError when result is a number.                                 *)
(***************************************************************************)
Return(v) == [raised |-> FALSE, value |-> v]
Raise == [raised |-> TRUE, value |-> None]

\* The `"data" in result` test without the `result and` guard in front of it.
has_data_unguarded(result) ==
    IF result = None \/ result.kind = "number" THEN "TypeError"
    ELSE IF result.has_data THEN "yes" ELSE "no"

\* result and "data" in result
has_data(result) ==
    IF result = None THEN "no"
    ELSE IF result.kind = "number" THEN "TypeError"
    ELSE IF result.has_data THEN "yes" ELSE "no"

fetch_all_agents(result) ==
    CASE has_data(result) = "TypeError" -> Raise
      [] has_data(result) = "yes" -> Return(result.data)
      [] OTHER -> Return(<<>>)

fetch_metrics_leaderboard(result) ==
    CASE has_data(result) = "TypeError" -> Raise
      [] has_data(result) = "yes" -> Return(result.data)
      [] OTHER -> Return(<<>>)

\* GlobalMetrics as constructed: total_agdp_latest = 0.0, total_agents = 0.
\* The model's data of the four-metrics body is its result.GAV."7D" series.
GlobalMetrics(latest, agents) == [total_agdp_latest |-> latest, total_agents |-> agents]

fetch_global_metrics(result) ==
    CASE has_data(result) = "TypeError" -> Raise
      [] has_data(result) = "yes" ->
            LET seven_d == result.data
            IN  IF seven_d # <<>>
                THEN Return(GlobalMetrics(Get(seven_d[Len(seven_d)], "value", 0), 0))
                ELSE Return(GlobalMetrics(0, 0))
      [] OTHER -> Return(GlobalMetrics(0, 0))

fetch_agent_detail(result) ==
    CASE has_data(result) = "TypeError" -> Raise
      [] has_data(result) = "yes" -> Return(result.data)
      [] OTHER -> Return(None)

fetch_agent_metrics(result) ==
    CASE has_data(result) = "TypeError" -> Raise
      [] has_data(result) = "yes" -> Return(result.data)
      [] OTHER -> Return(None)

(***************************************************************************)
(* _fix_capped_agdp and the numeric fields of _merge_agent.                *)
(***************************************************************************)
AGDP_CAP == Amt(99999999, 99)

\* The cap test with the comparison of the gross value made strict.
fix_capped_strict(gross_agdp, volume) ==
    IF AmtGT(gross_agdp, AGDP_CAP) /\ AmtGT(volume, AGDP_CAP) THEN volume ELSE gross_agdp

_fix_capped_agdp(gross_agdp, volume) ==
    IF AmtGE(gross_agdp, AGDP_CAP) /\ AmtGT(volume, AGDP_CAP) THEN volume ELSE gross_agdp

\* m.get("grossAgenticAmount") or l.get("grossAgenticAmount", 0) or 0
resolved_gross(l, m) ==
    Or(Or(Get(m, "grossAgenticAmount", None), Get(l, "grossAgenticAmount", Zero)), Zero)

\* m.get("volume") or l.get("grossAgenticAmount", 0) or 0
resolved_volume(l, m) ==
    Or(Or(Get(m, "volume", None), Get(l, "grossAgenticAmount", Zero)), Zero)

\* d = detail_data or {}, m = metrics_data or {}: a missing record is the
\* empty dict.
EmptyDict == <<>>
OrEmpty(r) == IF r = None THEN EmptyDict ELSE r

\* The fallback chain with the metrics record left out.
detail_or_list(m, d, l, key) ==
    Or(Or(Get(d, key, None), Get(l, key, Zero)), Zero)

\* m.get(key) or d.get(key) or l.get(key, 0) or 0
metrics_detail_list(m, d, l, key) ==
    Or(Or(Or(Get(m, key, None), Get(d, key, None)), Get(l, key, Zero)), Zero)

Hundred == Amt(100, 0)

\* A JSON string that is no number: float() of it raises ValueError.
NotANumber == [kind |-> "str"]
float_raises(x) == x = NotANumber

\* max(x, 0) without the min(..., 100) around it.
clamp_from_below(x) == IF AmtGT(Zero, x) THEN Zero ELSE x

\* min(max(float(x), 0), 100): max gives 0 when 0 > x, min gives 100 when
\* 100 < max(x, 0).
clamp(x) ==
    LET lower == IF AmtGT(Zero, x) THEN Zero ELSE x
    IN  IF AmtGT(lower, Hundred) THEN Hundred ELSE lower

_merge_agent(rank, list_data, metrics_data, detail_data) ==
    LET d == OrEmpty(detail_data)
        m == OrEmpty(metrics_data)
        l == list_data
        lid == Get(l, "id", 0)
    IN  [rank |-> rank,
         agent_id |-> IF lid # 0 THEN lid ELSE Get(d, "id", 0),
         volume |-> resolved_volume(l, m),
         gross_agdp |-> _fix_capped_agdp(resolved_gross(l, m), resolved_volume(l, m)),
         revenue |-> Or(Get(m, "revenue", Zero), Zero),
         success_rate |-> clamp(metrics_detail_list(m, d, l, "successRate")),
         successful_jobs |-> metrics_detail_list(m, d, l, "successfulJobCount"),
         unique_buyers |-> metrics_detail_list(m, d, l, "uniqueBuyerCount")]

VARIABLES
    args, ret,          \* SpecGet, SpecMerge: the call's arguments and result;
                        \* SpecFanout: the upstream's fixed answers, and the
                        \* history of the order in which the tasks ended
    pc,                 \* where scrape_all stands
    session,            \* "unset", "open" or "closed"
    concurrency,        \* self.concurrency
    max_retries,        \* self.max_retries
    global_metrics,
    agents_list,
    page, metrics_list, \* the walker's page number and all_agents
    batches,            \* history: the batches the walker received
    metrics_map, agents_map, all_ids,
    semaphore,          \* free slots of the asyncio.Semaphore
    tasks,              \* per agent id: where its fetch_detail_throttled stands
    detail_map, ind_metrics_map,
    sorted_ids,
    agent_data_list,
    returned,           \* what scrape_all returned
    trace,              \* history: the phases completed, in order
    malformed           \* history: some 200 response was not what the code expects

callvars == <<args, ret>>
runvars == <<pc, session, concurrency, max_retries, global_metrics, agents_list,
             page, metrics_list, batches, metrics_map, agents_map, all_ids,
             semaphore, tasks, detail_map, ind_metrics_map, sorted_ids,
             agent_data_list, returned, trace, malformed>>
vars == <<args, ret, pc, session, concurrency, max_retries, global_metrics,
          agents_list, page, metrics_list, batches, metrics_map, agents_map,
          all_ids, semaphore, tasks, detail_map, ind_metrics_map, sorted_ids,
          agent_data_list, returned, trace, malformed>>

\* The state of scrape_all before it is called.
Idle ==
    /\ pc = "idle" /\ session = "unset"
    /\ concurrency = 0 /\ max_retries = 0
    /\ global_metrics = None /\ agents_list = <<>>
    /\ page = 0 /\ metrics_list = <<>> /\ batches = <<>>
    /\ metrics_map = EmptyDict /\ agents_map = EmptyDict /\ all_ids = <<>>
    /\ semaphore = 0 /\ tasks = EmptyDict
    /\ detail_map = EmptyDict /\ ind_metrics_map = EmptyDict
    /\ sorted_ids = <<>> /\ agent_data_list = <<>>
    /\ returned = None /\ trace = <<>> /\ malformed = FALSE

(***************************************************************************)
(* Helpers of scrape_all.                                                  *)
(***************************************************************************)
\* a["id"] raises KeyError for a record without the key.
missing_id(records) == \E k \in DOMAIN records : "id" \notin DOMAIN records[k]

\* {a["id"]: a for a in records}: a later record replaces an earlier one.
dict_by_id(records) ==
    [i \in {records[k].id : k \in DOMAIN records} |->
        records[CHOOSE k \in DOMAIN records :
                    /\ records[k].id = i
                    /\ \A j \in DOMAIN records : records[j].id = i => j <= k]]

\* sorted(S) of a set of integers: ascending.
RECURSIVE sorted_set(_)
sorted_set(S) ==
    IF S = {} THEN <<>>
    ELSE LET least == CHOOSE x \in S : \A y \in S : x <= y
         IN  <<least>> \o sorted_set(S \ {least})

\* The ids of one source only: the leaderboard's ids are left out.
ids_of_list_only(amap, mmap) == sorted_set(DOMAIN amap)

\* The two key lists joined without set() and sorted().
ids_concatenated(amap, mmap) == sorted_set(DOMAIN amap) \o sorted_set(DOMAIN mmap)

\* sorted(set(list(agents_map.keys()) + list(metrics_map.keys())))
union_ids(amap, mmap) == sorted_set(DOMAIN amap \cup DOMAIN mmap)

\* ind_metrics_map.get(x, {}).get("volume", 0) or
\* metrics_map.get(x, {}).get("volume", 0) or 0
volume_key(x, imap, mmap) ==
    Or(Or(Get(Get(imap, x, EmptyDict), "volume", Zero),
          Get(Get(mmap, x, EmptyDict), "volume", Zero)),
       Zero)

\* sorted(seq, key=..., reverse=True): a stable sort, so elements of equal
\* key keep the order they have in seq.  Each element is inserted behind
\* the elements whose key is at least its own.
RECURSIVE insert_all(_, _, _, _)
insert_all(seq, key, i, acc) ==
    IF i > Len(seq) THEN acc
    ELSE LET x == seq[i]
             n == Cardinality({j \in 1..Len(acc) : AmtGE(key[acc[j]], key[x])})
         IN  insert_all(seq, key, i + 1,
                        SubSeq(acc, 1, n) \o <<x>> \o SubSeq(acc, n + 1, Len(acc)))

\* An ascending sort that is reversed afterwards: equal keys come out in
\* descending order of position.
RECURSIVE insert_all_before_equal(_, _, _, _)
insert_all_before_equal(seq, key, i, acc) ==
    IF i > Len(seq) THEN acc
    ELSE LET x == seq[i]
             n == Cardinality({j \in 1..Len(acc) : AmtGT(key[acc[j]], key[x])})
         IN  insert_all_before_equal(seq, key, i + 1,
                        SubSeq(acc, 1, n) \o <<x>> \o SubSeq(acc, n + 1, Len(acc)))

sorted_then_reversed(seq, key) == insert_all_before_equal(seq, key, 1, <<>>)

\* The ids sorted from the order in which their tasks ended.
sorted_as_completed(seq, key) == insert_all(ret, key, 1, <<>>)

sorted_reverse(seq, key) == insert_all(seq, key, 1, <<>>)

\* Truthiness of a dict or None, and `a or b` on such values.
DictTruthy(r) == r # None /\ DOMAIN r # {}
DictOr(a, b) == IF DictTruthy(a) THEN a ELSE b

\* Whether _merge_agent raises for the agent: float() of its resolved
\* success rate does.
merge_raises(aid, amap, mmap, imap, dmap) ==
    LET list_entry == Get(amap, aid, [id |-> aid])
        merged_metrics == DictOr(Get(imap, aid, None), Get(mmap, aid, None))
        detail == Get(dmap, aid, None)
    IN  float_raises(metrics_detail_list(OrEmpty(merged_metrics), OrEmpty(detail),
                                         list_entry, "successRate"))

\* The body of the merge loop for the id at position `rank` of sorted_ids.
merge_one(rank, aid, amap, mmap, imap, dmap) ==
    LET list_entry == Get(amap, aid, [id |-> aid])
        merged_metrics == DictOr(Get(imap, aid, None), Get(mmap, aid, None))
        detail == Get(dmap, aid, None)
    IN  _merge_agent(rank, list_entry, merged_metrics, detail)

\* gather without return_exceptions: the first exception propagates.
gather_propagating(ids, ts) ==
    [raised |-> \E k \in 1..Len(ids) : ts[ids[k]].pc = "failed",
     results |-> [k \in 1..Len(ids) |->
                    [exception |-> FALSE, aid |-> ids[k],
                     detail |-> ts[ids[k]].detail,
                     metrics |-> ts[ids[k]].metrics]]]

\* asyncio.gather(*tasks, return_exceptions=True): one result per task, in
\* the order of all_ids; a task that raised yields its exception.
gather(ids, ts) ==
    [raised |-> FALSE,
     results |-> [k \in 1..Len(ids) |->
                    IF ts[ids[k]].pc = "failed"
                    THEN [exception |-> TRUE]
                    ELSE [exception |-> FALSE, aid |-> ids[k],
                          detail |-> ts[ids[k]].detail,
                          metrics |-> ts[ids[k]].metrics]]]

\* The loop over the results that fills detail_map / ind_metrics_map.
collect(results, field) ==
    LET kept == {k \in DOMAIN results :
                    ~results[k].exception /\ DictTruthy(results[k][field])}
    IN  [aid \in {results[k].aid : k \in kept} |->
            results[CHOOSE k \in kept : results[k].aid = aid][field]]

\* A gate that admits every task.
can_acquire_always(value) == TRUE

\* asyncio.Semaphore: acquire passes while the value is positive.
can_acquire(value) == value > 0

(***************************************************************************)
(* The upstream API as the environment of Spec.                            *)
(***************************************************************************)
Ids == 0..MaxId
Small == Amt(50, 0)
Big == Amt(100000000, 0)

\* The upstream's answers to the n attempts of one _get call: k failures,
\* then the body b on every later attempt (at once, on the last attempt, or
\* never).
Runs(bodies, n) ==
    {[i \in 1..n |-> IF i <= k THEN HttpError(500) ELSE Ok(b)] :
        k \in {0, n - 1, n}, b \in bodies}

Malformed == {ObjNoData, Scalar}

GlobalBodies == Malformed \cup {Obj(<<>>), Obj(<<[value |-> 3], [value |-> 7]>>)}

\* The bulk list: the roster of the first n agents, in ascending order.
Rosters == {[k \in 1..n |-> [id |-> k - 1]] : n \in 0..(MaxId + 1)}
\* A roster whose agent reports a success rate that is no number.
UnratedRoster == <<[id |-> 0, successRate |-> NotANumber]>>
ListBodies == Malformed \cup {Obj(l) : l \in Rosters} \cup {Obj(UnratedRoster)}

\* Leaderboard pages: a short page holds at most one record (of any agent),
\* a full page page_size records (of the leading agent).
LeaderRecord(i) == [id |-> i, volume |-> Small]
NamelessRecord == [volume |-> Small]
ShortPages == {<<>>} \cup {<<LeaderRecord(i)>> : i \in Ids} \cup {<<NamelessRecord>>}
FullPages == {[k \in 1..page_size |-> LeaderRecord(0)]}
PageBodies(served) ==
    Malformed \cup {Obj(pg) : pg \in ShortPages}
              \cup (IF served < MaxFullPages THEN {Obj(pg) : pg \in FullPages} ELSE {})

\* The detail endpoint answers for the agent asked for; the per-agent
\* metrics report no volume for agent 0 and an uncapped one for the others.
DetailBodies(aid) == Malformed \cup {Obj([id |-> aid])}
MetricsBodies(aid) == Malformed \cup {Obj([volume |-> IF aid = 0 THEN Zero ELSE Big])}

\* The attempts the upstream answers to the detail and the metrics request
\* of an agent: chosen when the request is made, or fixed for the run.
FixedUpstream == args # None /\ args.fn = "scrape_all"
DetailRuns(aid) ==
    IF FixedUpstream THEN {args.detail[aid]} ELSE Runs(DetailBodies(aid), max_retries)
MetricsRuns(aid) ==
    IF FixedUpstream THEN {args.metrics[aid]} ELSE Runs(MetricsBodies(aid), max_retries)

(***************************************************************************)
(* Spec: one invocation of scrape_all.                                     *)
(***************************************************************************)
Init ==
    /\ args = None /\ ret = None
    /\ pc = "start" /\ session = "unset"
    /\ concurrency \in 1..MaxConcurrency
    /\ max_retries = default_max_retries
    /\ global_metrics = None /\ agents_list = <<>>
    /\ page = 0 /\ metrics_list = <<>> /\ batches = <<>>
    /\ metrics_map = EmptyDict /\ agents_map = EmptyDict /\ all_ids = <<>>
    /\ semaphore = 0 /\ tasks = EmptyDict
    /\ detail_map = EmptyDict /\ ind_metrics_map = EmptyDict
    /\ sorted_ids = <<>> /\ agent_data_list = <<>>
    /\ returned = None /\ trace = <<>> /\ malformed = FALSE

\* A body that is not a JSON object.
not_an_object(result) == result # None /\ result.kind # "object"

\* Records the code cannot process: one without an id, one whose success
\* rate is no number.
ill_formed(records) ==
    \E k \in DOMAIN records :
        \/ "id" \notin DOMAIN records[k]
        \/ Get(records[k], "successRate", Zero) = NotANumber

\* An exception leaving scrape_all without the session being closed.
Crash_keeping_session(phase) ==
    /\ pc' = "raised"
    /\ UNCHANGED session
    /\ trace' = Append(trace, "raised in " \o phase)

\* An exception leaves scrape_all: the `async with` closes the session.
Crash(phase) ==
    /\ pc' = "raised"
    /\ session' = "closed"
    /\ trace' = Append(trace, "raised in " \o phase)

\* async with aiohttp.ClientSession() as session: self.session = session
OpenSession ==
    /\ pc = "start"
    /\ session' = "open"
    /\ pc' = "global"
    /\ UNCHANGED <<args, ret, malformed, concurrency, max_retries, global_metrics, agents_list,
                   page, metrics_list, batches, metrics_map, agents_map, all_ids,
                   semaphore, tasks, detail_map, ind_metrics_map, sorted_ids,
                   agent_data_list, returned, trace>>

\* global_metrics = await self.fetch_global_metrics()
FetchGlobal ==
    /\ pc = "global"
    /\ \E outs \in Runs(GlobalBodies, max_retries) :
        LET r == fetch_global_metrics(_get(outs, max_retries).result)
        IN  /\ malformed' = (malformed \/ not_an_object(_get(outs, max_retries).result))
            /\ IF r.raised
               THEN Crash("global") /\ UNCHANGED global_metrics
               ELSE /\ global_metrics' = r.value
                    /\ pc' = "list"
                    /\ trace' = Append(trace, "global")
                    /\ UNCHANGED session
    /\ UNCHANGED <<args, ret, concurrency, max_retries, agents_list,
                   page, metrics_list, batches, metrics_map, agents_map, all_ids,
                   semaphore, tasks, detail_map, ind_metrics_map, sorted_ids,
                   agent_data_list, returned>>

\* agents_list = await self.fetch_all_agents(); the walker then starts with
\* all_agents = [] and page = 1.
FetchAgents ==
    /\ pc = "list"
    /\ \E outs \in Runs(ListBodies, max_retries) :
        LET r == fetch_all_agents(_get(outs, max_retries).result)
        IN  /\ malformed' = (malformed \/ not_an_object(_get(outs, max_retries).result)
                                        \/ (~r.raised /\ ill_formed(r.value)))
            /\ IF r.raised
               THEN Crash("list") /\ UNCHANGED <<agents_list, page>>
               ELSE /\ agents_list' = r.value
                    /\ page' = 1
                    /\ pc' = "pages"
                    /\ trace' = Append(trace, "list")
                    /\ UNCHANGED session
    /\ UNCHANGED <<args, ret, concurrency, max_retries, global_metrics,
                   metrics_list, batches, metrics_map, agents_map, all_ids,
                   semaphore, tasks, detail_map, ind_metrics_map, sorted_ids,
                   agent_data_list, returned>>

\* A walker that stops only at an empty batch.
next_page_until_empty(batch) == batch # <<>>

\* Whether the walker goes on to the next page after `batch`.
next_page_wanted(batch) == batch # <<>> /\ Len(batch) >= page_size

\* One turn of the loop of fetch_all_metrics_pages.
FetchPage ==
    /\ pc = "pages"
    /\ \E outs \in Runs(PageBodies(Len(batches)), max_retries) :
        LET r == fetch_metrics_leaderboard(_get(outs, max_retries).result)
            batch == r.value
        IN  /\ malformed' = (malformed \/ not_an_object(_get(outs, max_retries).result)
                                        \/ (~r.raised /\ ill_formed(r.value)))
            /\ IF r.raised
               THEN Crash("pages") /\ UNCHANGED <<page, metrics_list, batches>>
               ELSE /\ batches' = Append(batches, [page |-> page, batch |-> batch])
                    /\ metrics_list' = metrics_list \o batch
                    /\ IF next_page_wanted(batch)
                       THEN page' = page + 1 /\ UNCHANGED <<pc, trace>>
                       ELSE /\ pc' = "maps"
                            /\ trace' = Append(trace, "pages")
                            /\ UNCHANGED page
                    /\ UNCHANGED session
    /\ UNCHANGED <<args, ret, concurrency, max_retries, global_metrics, agents_list,
                   metrics_map, agents_map, all_ids,
                   semaphore, tasks, detail_map, ind_metrics_map, sorted_ids,
                   agent_data_list, returned>>

\* metrics_map, agents_map, all_ids, total_agents, the semaphore and the
\* list of tasks handed to gather.
BuildMaps ==
    /\ pc = "maps"
    /\ IF missing_id(metrics_list) \/ missing_id(agents_list)
       THEN /\ Crash("union")
            /\ UNCHANGED <<metrics_map, agents_map, all_ids, global_metrics,
                           semaphore, tasks>>
       ELSE /\ metrics_map' = dict_by_id(metrics_list)
            /\ agents_map' = dict_by_id(agents_list)
            /\ all_ids' = union_ids(agents_map', metrics_map')
            /\ global_metrics' = [global_metrics EXCEPT !.total_agents = Len(all_ids')]
            /\ semaphore' = concurrency
            /\ tasks' = [aid \in {all_ids'[k] : k \in DOMAIN all_ids'} |->
                            [pc |-> "wait", detail |-> None, metrics |-> None]]
            /\ pc' = "fanout"
            /\ trace' = Append(trace, "union")
            /\ UNCHANGED session
    /\ UNCHANGED <<args, ret, malformed, concurrency, max_retries, agents_list,
                   page, metrics_list, batches, detail_map, ind_metrics_map,
                   sorted_ids, agent_data_list, returned>>

fanout_unchanged ==
    UNCHANGED <<args, pc, session, concurrency, max_retries, global_metrics,
                agents_list, page, metrics_list, batches, metrics_map, agents_map,
                all_ids, detail_map, ind_metrics_map, sorted_ids, agent_data_list,
                returned, trace>>

Failed == [pc |-> "failed", detail |-> None, metrics |-> None]

\* The history of the order in which the tasks end, where it is kept.
ended(aid) == IF FixedUpstream THEN Append(ret, aid) ELSE ret

\* async with semaphore: (entry)
Acquire(aid) ==
    /\ pc = "fanout"
    /\ tasks[aid].pc = "wait"
    /\ can_acquire(semaphore)
    /\ semaphore' = semaphore - 1
    /\ tasks' = [tasks EXCEPT ![aid].pc = "detail"]
    /\ UNCHANGED <<malformed, ret>>
    /\ fanout_unchanged

\* detail = await self.fetch_agent_detail(aid)
FetchDetail(aid) ==
    /\ pc = "fanout"
    /\ tasks[aid].pc = "detail"
    /\ \E outs \in DetailRuns(aid) :
        LET r == fetch_agent_detail(_get(outs, max_retries).result)
        IN  /\ malformed' = (malformed \/ not_an_object(_get(outs, max_retries).result))
            /\ IF r.raised
               THEN /\ tasks' = [tasks EXCEPT ![aid] = Failed]
                    /\ semaphore' = semaphore + 1
                    /\ ret' = ended(aid)
               ELSE /\ tasks' = [tasks EXCEPT ![aid].pc = "sleep1", ![aid].detail = r.value]
                    /\ UNCHANGED <<semaphore, ret>>
    /\ fanout_unchanged

\* await asyncio.sleep(self.delay)
Sleep1(aid) ==
    /\ pc = "fanout"
    /\ tasks[aid].pc = "sleep1"
    /\ tasks' = [tasks EXCEPT ![aid].pc = "metrics"]
    /\ UNCHANGED semaphore
    /\ UNCHANGED <<malformed, ret>>
    /\ fanout_unchanged

\* metrics = await self.fetch_agent_metrics(aid)
FetchMetrics(aid) ==
    /\ pc = "fanout"
    /\ tasks[aid].pc = "metrics"
    /\ \E outs \in MetricsRuns(aid) :
        LET r == fetch_agent_metrics(_get(outs, max_retries).result)
        IN  /\ malformed' = (malformed \/ not_an_object(_get(outs, max_retries).result))
            /\ IF r.raised
               THEN /\ tasks' = [tasks EXCEPT ![aid] = Failed]
                    /\ semaphore' = semaphore + 1
                    /\ ret' = ended(aid)
               ELSE /\ tasks' = [tasks EXCEPT ![aid].pc = "sleep2", ![aid].metrics = r.value]
                    /\ UNCHANGED <<semaphore, ret>>
    /\ fanout_unchanged

\* The end of the task without the release of its slot.
Sleep2_keeping_slot(aid) ==
    /\ pc = "fanout"
    /\ tasks[aid].pc = "sleep2"
    /\ tasks' = [tasks EXCEPT ![aid].pc = "done"]
    /\ UNCHANGED semaphore
    /\ ret' = ended(aid)
    /\ UNCHANGED malformed
    /\ fanout_unchanged

\* await asyncio.sleep(self.delay); return aid, detail, metrics (leaving the
\* `async with` releases the slot)
Sleep2(aid) ==
    /\ pc = "fanout"
    /\ tasks[aid].pc = "sleep2"
    /\ tasks' = [tasks EXCEPT ![aid].pc = "done"]
    /\ semaphore' = semaphore + 1
    /\ ret' = ended(aid)
    /\ UNCHANGED malformed
    /\ fanout_unchanged

\* gather returning although some task has not ended.
Gather_without_waiting ==
    /\ pc = "fanout"
    /\ LET g == gather(all_ids, tasks)
       IN  IF g.raised
           THEN Crash("fanout") /\ UNCHANGED <<detail_map, ind_metrics_map>>
           ELSE /\ detail_map' = collect(g.results, "detail")
                /\ ind_metrics_map' = collect(g.results, "metrics")
                /\ pc' = "rank"
                /\ trace' = Append(trace, "fanout")
                /\ UNCHANGED session
    /\ UNCHANGED <<args, ret, malformed, concurrency, max_retries, global_metrics, agents_list,
                   page, metrics_list, batches, metrics_map, agents_map, all_ids,
                   semaphore, tasks, sorted_ids, agent_data_list, returned>>

\* results = await asyncio.gather(...) returns once every task has ended;
\* the loop over the results fills detail_map and ind_metrics_map.
Gather ==
    /\ pc = "fanout"
    /\ \A aid \in DOMAIN tasks : tasks[aid].pc \in {"done", "failed"}
    /\ LET g == gather(all_ids, tasks)
       IN  IF g.raised
           THEN Crash("fanout") /\ UNCHANGED <<detail_map, ind_metrics_map>>
           ELSE /\ detail_map' = collect(g.results, "detail")
                /\ ind_metrics_map' = collect(g.results, "metrics")
                /\ pc' = "rank"
                /\ trace' = Append(trace, "fanout")
                /\ UNCHANGED session
    /\ UNCHANGED <<args, ret, malformed, concurrency, max_retries, global_metrics, agents_list,
                   page, metrics_list, batches, metrics_map, agents_map, all_ids,
                   semaphore, tasks, sorted_ids, agent_data_list, returned>>

\* sorted_ids = sorted(all_ids, key=..., reverse=True)
Rank ==
    /\ pc = "rank"
    /\ sorted_ids' = sorted_reverse(all_ids,
            [x \in DOMAIN tasks |-> volume_key(x, ind_metrics_map, metrics_map)])
    /\ pc' = "merge"
    /\ trace' = Append(trace, "rank")
    /\ UNCHANGED <<args, ret, malformed, session, concurrency, max_retries, global_metrics,
                   agents_list, page, metrics_list, batches, metrics_map, agents_map,
                   all_ids, semaphore, tasks, detail_map, ind_metrics_map,
                   agent_data_list, returned>>

\* for rank, aid in enumerate(sorted_ids, 1): ... agent_data_list.append(agent)
Merge ==
    /\ pc = "merge"
    /\ IF \E k \in 1..Len(sorted_ids) :
            merge_raises(sorted_ids[k], agents_map, metrics_map, ind_metrics_map, detail_map)
       THEN Crash("merge") /\ UNCHANGED agent_data_list
       ELSE /\ agent_data_list' =
                  [k \in 1..Len(sorted_ids) |->
                      merge_one(k, sorted_ids[k], agents_map, metrics_map,
                                ind_metrics_map, detail_map)]
            /\ pc' = "return"
            /\ trace' = Append(trace, "merge")
            /\ UNCHANGED session
    /\ UNCHANGED <<args, ret, malformed, concurrency, max_retries, global_metrics,
                   agents_list, page, metrics_list, batches, metrics_map, agents_map,
                   all_ids, semaphore, tasks, detail_map, ind_metrics_map,
                   sorted_ids, returned>>

\* return agent_data_list, global_metrics (leaving the `async with` closes
\* the session)
ReturnAll ==
    /\ pc = "return"
    /\ returned' = [agents |-> agent_data_list, global_metrics |-> global_metrics]
    /\ session' = "closed"
    /\ pc' = "done"
    /\ trace' = Append(trace, "return")
    /\ UNCHANGED <<args, ret, malformed, concurrency, max_retries, global_metrics,
                   agents_list, page, metrics_list, batches, metrics_map, agents_map,
                   all_ids, semaphore, tasks, detail_map, ind_metrics_map,
                   sorted_ids, agent_data_list>>

Next ==
    \/ OpenSession
    \/ FetchGlobal
    \/ FetchAgents
    \/ FetchPage
    \/ BuildMaps
    \/ \E aid \in Ids : aid \in DOMAIN tasks /\ Acquire(aid)
    \/ \E aid \in Ids : aid \in DOMAIN tasks /\ FetchDetail(aid)
    \/ \E aid \in Ids : aid \in DOMAIN tasks /\ Sleep1(aid)
    \/ \E aid \in Ids : aid \in DOMAIN tasks /\ FetchMetrics(aid)
    \/ \E aid \in Ids : aid \in DOMAIN tasks /\ Sleep2(aid)
    \/ Gather
    \/ Rank
    \/ Merge
    \/ ReturnAll

Spec == Init /\ [][Next]_vars

\* One step of the coroutine scrape_all itself, and one step of the task of
\* agent aid: the units the event loop schedules.
MainStep ==
    \/ OpenSession \/ FetchGlobal \/ FetchAgents \/ FetchPage \/ BuildMaps
    \/ Gather \/ Rank \/ Merge \/ ReturnAll
TaskStep(aid) ==
    /\ aid \in DOMAIN tasks
    /\ \/ Acquire(aid) \/ FetchDetail(aid) \/ Sleep1(aid)
       \/ FetchMetrics(aid) \/ Sleep2(aid)


(***************************************************************************)
(* SpecGet: one call of _get.                                              *)
(***************************************************************************)
AttemptKinds == {Ok(ObjNoData), HttpError(404), HttpError(500), Exc}

RECURSIVE SeqsOfLen(_, _)
SeqsOfLen(S, n) ==
    IF n = 0 THEN {<<>>}
    ELSE {Append(s, x) : s \in SeqsOfLen(S, n - 1), x \in S}

InitGet ==
    /\ Idle
    /\ args \in [fn : {"_get"}, max_retries : 0..MaxRetries,
                 outs : SeqsOfLen(AttemptKinds, MaxRetries + 1)]
    /\ ret = None

CallGet ==
    /\ args.fn = "_get"
    /\ ret = None
    /\ ret' = _get(args.outs, args.max_retries)
    /\ UNCHANGED args
    /\ UNCHANGED runvars

NextGet == CallGet

SpecGet == InitGet /\ [][NextGet]_vars

\* Every one of the first n attempts fails.
AllFail(outs, n) == \A i \in 1..n : outs[i].exc \/ outs[i].status # 200

\* C1: when every attempt fails, _get makes exactly max_retries attempts,
\* returns None without raising, sleeps 2^i seconds after failed attempt i
\* for every i < max_retries - 1 and does not sleep after the last attempt.
C1_RetryBudget ==
    (args.fn = "_get" /\ ret # None /\ args.max_retries >= 1
        /\ AllFail(args.outs, args.max_retries))
    => /\ ret.attempts = args.max_retries
       /\ ret.result = None
       /\ ~ret.raised
       /\ ret.sleeps = [i \in 1..(args.max_retries - 1) |-> 2 ^ (i - 1)]

C1_Witness ==
    /\ args.fn = "_get" /\ ret # None
    /\ args.max_retries = 3
    /\ AllFail(args.outs, 3)
    /\ ret.sleeps = <<1, 2>>
    /\ ret.attempts = 3
(***************************************************************************)
(* SpecMerge: one call of _fix_capped_agdp or of _merge_agent.             *)
(***************************************************************************)
Amounts == {Zero, Small, Amt(60, 0), Amt(99999999, 98), AGDP_CAP, Big, Amt(100000000, 1)}
MergeAmounts == {Zero, Small, AGDP_CAP, Big}

ListDatas == {[id |-> 1]} \cup {[id |-> 1, grossAgenticAmount |-> g] : g \in MergeAmounts}
MetricsDatas ==
    {None, EmptyDict}
        \cup {[volume |-> v] : v \in MergeAmounts}
        \cup {[grossAgenticAmount |-> g] : g \in MergeAmounts}
        \cup {[volume |-> v, grossAgenticAmount |-> g] : v \in MergeAmounts, g \in MergeAmounts}
DetailDatas == {None, [id |-> 1]}

\* Raw success rates: negative, zero, inside the range, at and above its
\* end, and JSON null; a source may also lack the field.
Rates == {Amt(-5, 0), Zero, Amt(0, 50), Small, Hundred, Amt(100, 1), Amt(150, 0), None}
RateListDatas == {[id |-> 1]} \cup {[id |-> 1, successRate |-> r] : r \in Rates}
RateMetricsDatas == {None} \cup {[successRate |-> r] : r \in Rates}
RateDetailDatas == {None} \cup {[id |-> 1, successRate |-> r] : r \in Rates}

\* Metrics records that carry every metric field, for list and detail
\* records that carry none of them.
FullMetricsDatas ==
    [volume : {Zero, Small, Big},
     grossAgenticAmount : {Small, AGDP_CAP},
     revenue : {Zero, Small},
     successRate : {Amt(-5, 0), Small, Amt(150, 0)},
     successfulJobCount : {Zero, Amt(7, 0), None},
     uniqueBuyerCount : {Amt(3, 0), None}]

InitMerge ==
    /\ Idle
    /\ ret = None
    /\ \/ args \in [fn : {"_fix_capped_agdp"}, gross_agdp : Amounts, volume : Amounts]
       \/ args \in [fn : {"_merge_agent"}, rank : {1}, list_data : ListDatas,
                    metrics_data : MetricsDatas, detail_data : DetailDatas]
       \/ args \in [fn : {"_merge_agent"}, rank : {1}, list_data : RateListDatas,
                    metrics_data : RateMetricsDatas, detail_data : RateDetailDatas]
       \/ args \in [fn : {"_merge_agent"}, rank : {1}, list_data : {[id |-> 1]},
                    metrics_data : FullMetricsDatas, detail_data : DetailDatas]

CallFix ==
    /\ args.fn = "_fix_capped_agdp"
    /\ ret = None
    /\ ret' = _fix_capped_agdp(args.gross_agdp, args.volume)
    /\ UNCHANGED args
    /\ UNCHANGED runvars

CallMerge ==
    /\ args.fn = "_merge_agent"
    /\ ret = None
    /\ ret' = _merge_agent(args.rank, args.list_data, args.metrics_data, args.detail_data)
    /\ UNCHANGED args
    /\ UNCHANGED runvars

NextMerge == CallFix \/ CallMerge

SpecMerge == InitMerge /\ [][NextMerge]_vars

(***************************************************************************)
(* Properties of fetch_all_metrics_pages.                                  *)
(***************************************************************************)
WalkerReturned == \E k \in DOMAIN trace : trace[k] = "pages"

RECURSIVE Flatten(_)
Flatten(bs) == IF bs = <<>> THEN <<>> ELSE bs[1].batch \o Flatten(Tail(bs))

IsFull(b) == Len(b.batch) >= page_size

\* C2: the walker requests pages 1, 2, 3, ... in order, asks for a further
\* page only after a full one, and has stopped after the first batch that is
\* empty or shorter than page_size; all_agents is the concatenation of the
\* batches in page order.  A full first page followed by an empty second one
\* gives exactly page_size records after exactly two requests.
C2_Pagination ==
    /\ \A k \in DOMAIN batches : batches[k].page = k
    /\ \A k \in DOMAIN batches : k < Len(batches) => IsFull(batches[k])
    /\ metrics_list = Flatten(batches)
    /\ pc = "pages" => (page = Len(batches) + 1 /\ \A k \in DOMAIN batches : IsFull(batches[k]))
    /\ WalkerReturned <=> (batches # <<>> /\ ~IsFull(batches[Len(batches)]))
    /\ (WalkerReturned /\ Len(batches) >= 2 /\ Len(batches[1].batch) = page_size
            /\ batches[2].batch = <<>>)
        => (Len(metrics_list) = page_size /\ Len(batches) = 2)

C2_Witness ==
    /\ WalkerReturned
    /\ Len(batches) = 2
    /\ Len(batches[1].batch) = page_size
    /\ batches[2].batch = <<>>
    /\ Len(metrics_list) = page_size

(***************************************************************************)
(* Properties of the fan-out.                                              *)
(***************************************************************************)
Holding == {"detail", "sleep1", "metrics", "sleep2"}
Ended == {"done", "failed"}
AfterFanout == {"rank", "merge", "return", "done"}
InFlight == {aid \in DOMAIN tasks : tasks[aid].pc \in Holding}
FailedTasks == {aid \in DOMAIN tasks : tasks[aid].pc = "failed"}

\* C3: the number of per-agent tasks between the start of their detail fetch
\* and the end of their second delay never exceeds the concurrency limit;
\* each of them holds exactly one slot of the semaphore.
C3_BoundedFanout ==
    /\ Cardinality(InFlight) <= concurrency
    /\ pc = "fanout" => semaphore = concurrency - Cardinality(InFlight)

C3_Witness ==
    /\ pc = "fanout"
    /\ Cardinality(InFlight) = concurrency
    /\ \E aid \in DOMAIN tasks : tasks[aid].pc = "wait"
    /\ \E aid \in DOMAIN tasks : tasks[aid].pc = "sleep2"

\* The volume a record gets from the sources other than the per-agent
\* fetches: the leaderboard record's, else the list record's gross amount.
FallbackVolume(aid) ==
    LET lb == Get(Get(metrics_map, aid, EmptyDict), "volume", Zero)
        gr == Get(Get(agents_map, aid, EmptyDict), "grossAgenticAmount", Zero)
    IN  IF lb # Zero THEN lb ELSE gr

\* C4: a task that raises does not abort the batch: scrape_all goes on, the
\* results of every other task are recorded, the failing agent has neither a
\* detail nor a per-agent metrics entry, and it still gets an output record,
\* built from its list and leaderboard data.
C4_FailureIsolated ==
    /\ (FailedTasks # {} /\ pc = "raised") =>
        (trace[Len(trace)] = "raised in merge" /\ agents_list = UnratedRoster)
    /\ pc \in AfterFanout =>
        \A aid \in DOMAIN tasks :
            /\ tasks[aid].pc \in Ended
            /\ IF tasks[aid].pc = "failed"
               THEN aid \notin DOMAIN detail_map /\ aid \notin DOMAIN ind_metrics_map
               ELSE /\ tasks[aid].detail # None =>
                        (aid \in DOMAIN detail_map /\ detail_map[aid] = tasks[aid].detail)
                    /\ tasks[aid].metrics # None =>
                        (aid \in DOMAIN ind_metrics_map
                            /\ ind_metrics_map[aid] = tasks[aid].metrics)
    /\ pc = "done" =>
        \A aid \in FailedTasks :
            \E k \in DOMAIN returned.agents :
                /\ returned.agents[k].agent_id = aid
                /\ returned.agents[k].volume = FallbackVolume(aid)

C4_Witness ==
    /\ pc = "done"
    /\ \E f \in FailedTasks, a \in DOMAIN tasks :
        /\ tasks[a].pc = "done"
        /\ a \in DOMAIN detail_map /\ a \in DOMAIN ind_metrics_map
        /\ \E k \in DOMAIN returned.agents :
            returned.agents[k].agent_id = f /\ returned.agents[k].volume = Small

(***************************************************************************)
(* Properties of scrape_all.                                               *)
(***************************************************************************)
PhaseOrder == <<"global", "list", "pages", "union", "fanout", "rank", "merge", "return">>
Completed == IF pc = "raised" THEN SubSeq(trace, 1, Len(trace) - 1) ELSE trace

\* C5: the phases are completed in the fixed order, each once; the list is
\* requested after the global metrics, the leaderboard after the list, the
\* per-agent requests after the last leaderboard page and the id union, and
\* ranking, merge and return only after every fan-out task has ended.
C5_PhaseOrder ==
    /\ Len(Completed) <= Len(PhaseOrder)
    /\ Completed = SubSeq(PhaseOrder, 1, Len(Completed))
    /\ pc = "done" <=> trace = PhaseOrder
    /\ pc = "global" => (global_metrics = None /\ trace = <<>>)
    /\ pc \in {"start", "global", "list"} => (agents_list = <<>> /\ batches = <<>>)
    /\ batches # <<>> => Len(Completed) >= 2
    /\ tasks # EmptyDict => (Len(Completed) >= 4 /\ WalkerReturned)
    /\ (\E aid \in DOMAIN tasks : tasks[aid].pc # "wait") =>
            (pc \notin {"start", "global", "list", "pages", "maps"} /\ Len(Completed) >= 4)
    /\ (pc \in AfterFanout \/ sorted_ids # <<>> \/ agent_data_list # <<>>) =>
            \A aid \in DOMAIN tasks : tasks[aid].pc \in Ended
    /\ agent_data_list # <<>> => (pc \in {"return", "done"} /\ Len(sorted_ids) = Len(agent_data_list))
    /\ returned # None => pc = "done"

C5_Witness ==
    /\ pc = "done"
    /\ trace = PhaseOrder
    /\ Len(batches) = 2
    /\ Cardinality(DOMAIN tasks) = 2
    /\ Len(returned.agents) = 2

\* The effective volume of an agent: its per-agent metrics volume if that is
\* not zero, else its leaderboard volume, else 0.
EffectiveVolume(aid) ==
    LET own == IF aid \in DOMAIN ind_metrics_map /\ "volume" \in DOMAIN ind_metrics_map[aid]
               THEN ind_metrics_map[aid].volume ELSE Zero
        lb == IF aid \in DOMAIN metrics_map /\ "volume" \in DOMAIN metrics_map[aid]
              THEN metrics_map[aid].volume ELSE Zero
    IN  IF own # Zero THEN own ELSE lb

\* C6: the ranks of the returned records are 1..N in list order; the records
\* are in descending order of effective volume, and records of equal
\* effective volume are in ascending order of agent id.
C6_Ranking ==
    pc = "done" =>
        /\ \A k \in DOMAIN returned.agents : returned.agents[k].rank = k
        /\ \A i, j \in DOMAIN returned.agents :
            i < j =>
                LET a == returned.agents[i].agent_id
                    b == returned.agents[j].agent_id
                IN  \/ AmtGT(EffectiveVolume(a), EffectiveVolume(b))
                    \/ (EffectiveVolume(a) = EffectiveVolume(b) /\ a < b)

C6_Witness ==
    /\ pc = "done"
    /\ Len(returned.agents) = 2
    /\ returned.agents[1].rank = 1 /\ returned.agents[2].rank = 2
    /\ returned.agents[1].agent_id = 0 /\ returned.agents[2].agent_id = 1
    /\ EffectiveVolume(0) = Small /\ EffectiveVolume(1) = Small

C6_WitnessReordered ==
    /\ pc = "done"
    /\ Len(returned.agents) = 2
    /\ returned.agents[1].agent_id = 1 /\ returned.agents[2].agent_id = 0
    /\ EffectiveVolume(1) = Big /\ EffectiveVolume(0) = Small

SourceIds ==
    {agents_list[k].id : k \in DOMAIN agents_list}
        \cup {metrics_list[k].id : k \in DOMAIN metrics_list}

\* C7: scrape_all returns exactly one record per id of the union of the list
\* ids and the leaderboard ids: the returned agent ids are pairwise distinct,
\* their set is the union, every list id has its record, and total_agents is
\* the number of returned records.
C7_OneRecordPerId ==
    pc = "done" =>
        /\ \A i, j \in DOMAIN returned.agents :
            returned.agents[i].agent_id = returned.agents[j].agent_id => i = j
        /\ {returned.agents[k].agent_id : k \in DOMAIN returned.agents} = SourceIds
        /\ \A k \in DOMAIN agents_list :
            \E r \in DOMAIN returned.agents : returned.agents[r].agent_id = agents_list[k].id
        /\ \A k \in DOMAIN returned.agents :
            sorted_ids[k] \in DOMAIN agents_map =>
                returned.agents[k].agent_id = agents_map[sorted_ids[k]].id
        /\ returned.global_metrics.total_agents = Len(returned.agents)
        /\ Len(returned.agents) = Cardinality(SourceIds)

C7_Witness ==
    /\ pc = "done"
    /\ Len(metrics_list) = page_size + 1
    /\ metrics_list[page_size + 1].id = 0
    /\ Len(agents_list) = 2
    /\ Len(returned.agents) = 2
    /\ returned.global_metrics.total_agents = 2

\* C8: as long as every fetch either fails (None, or a JSON object without
\* "data") or succeeds with a JSON object, scrape_all never raises and no
\* task raises; it returns a record list and a GlobalMetrics.  A failed
\* fetch contributes the default: platform value 0, no list or leaderboard
\* records, no detail, no per-agent metrics.
C8_NeverRaises ==
    /\ ~malformed => (pc # "raised" /\ FailedTasks = {})
    /\ pc = "done" =>
        /\ returned # None
        /\ Len(returned.agents) = Len(all_ids)
        /\ returned.global_metrics.total_agdp_latest \in {0, 7}
    /\ \A failure \in {None, ObjNoData} :
        /\ fetch_global_metrics(failure) = Return(GlobalMetrics(0, 0))
        /\ fetch_all_agents(failure) = Return(<<>>)
        /\ fetch_metrics_leaderboard(failure) = Return(<<>>)
        /\ fetch_agent_detail(failure) = Return(None)
        /\ fetch_agent_metrics(failure) = Return(None)

C8_Witness ==
    /\ pc = "done"
    /\ ~malformed
    /\ returned.global_metrics.total_agdp_latest = 0
    /\ agents_list = <<>>
    /\ Len(batches) = 2 /\ batches[2].batch = <<>>
    /\ Len(returned.agents) = 1
    /\ detail_map = EmptyDict /\ ind_metrics_map = EmptyDict

LeaderboardIds == {metrics_list[k].id : k \in DOMAIN metrics_list}

\* C9 as stated: an empty or failed bulk list gives zero output records,
\* whatever the leaderboard returns.
C9_EmptyListNoRecords ==
    (pc = "done" /\ agents_list = <<>>) => Len(returned.agents) = 0

\* C9, amended: with an empty or failed bulk list scrape_all does not raise
\* and returns exactly one record per distinct leaderboard id, each merged
\* from the default list entry {"id": id}; so it returns zero records exactly
\* when the leaderboard supplies no id either.
C9_EmptyListLeaderboardOnly ==
    /\ (pc = "done" /\ agents_list = <<>>) =>
        /\ {returned.agents[k].agent_id : k \in DOMAIN returned.agents} = LeaderboardIds
        /\ Len(returned.agents) = Cardinality(LeaderboardIds)
        /\ Len(returned.agents) = 0 <=> metrics_list = <<>>
    /\ (pc = "raised" /\ agents_list = <<>>) => malformed

C9_Witness ==
    /\ pc = "done"
    /\ agents_list = <<>>
    /\ Len(returned.agents) = 2

(***************************************************************************)
(* Properties of _fix_capped_agdp and _merge_agent.                        *)
(***************************************************************************)
\* The first non-zero value among the metrics record's and the list record's
\* field, else 0.
FirstNonZero(m, mkey, l, lkey) ==
    LET mv == IF m # None /\ mkey \in DOMAIN m THEN m[mkey] ELSE Zero
        lv == IF lkey \in DOMAIN l THEN l[lkey] ELSE Zero
    IN  IF mv # Zero THEN mv ELSE lv

\* C10: _fix_capped_agdp(g, v) is v when g >= 99,999,999.99 and
\* v > 99,999,999.99, and g otherwise; so the gross_agdp of a merged record is
\* the resolved gross value or the resolved volume.
C10_CapFix ==
    /\ (args # None /\ args.fn = "_fix_capped_agdp" /\ ret # None) =>
        LET g == args.gross_agdp
            v == args.volume
            g_at_cap == g.whole > 99999999 \/ (g.whole = 99999999 /\ g.cents >= 99)
            v_over_cap == v.whole > 99999999
        IN  ret = IF g_at_cap /\ v_over_cap THEN v ELSE g
    /\ (args # None /\ args.fn = "_merge_agent" /\ ret # None) =>
        LET g == FirstNonZero(args.metrics_data, "grossAgenticAmount",
                              args.list_data, "grossAgenticAmount")
            v == FirstNonZero(args.metrics_data, "volume",
                              args.list_data, "grossAgenticAmount")
        IN  /\ ret.gross_agdp \in {g, v}
            /\ ret.volume = v
            /\ ret.gross_agdp = v <=> (g = v \/ (AmtGE(g, AGDP_CAP) /\ AmtGT(v, AGDP_CAP)))

C10_Witness ==
    /\ args # None /\ args.fn = "_fix_capped_agdp" /\ ret # None
    /\ args.gross_agdp = AGDP_CAP
    /\ args.volume = Big
    /\ ret = Big

C10_WitnessMerged ==
    /\ args # None /\ args.fn = "_merge_agent" /\ ret # None
    /\ args.list_data = [id |-> 1, grossAgenticAmount |-> AGDP_CAP]
    /\ args.metrics_data = [volume |-> Big]
    /\ ret.gross_agdp = Big
\* The raw success rate the merge resolves: that of the first of metrics,
\* detail and list that has a non-zero one, else 0.
RawRate(m, d, l) ==
    LET rate(r) == IF r # None /\ "successRate" \in DOMAIN r /\ r.successRate # None
                   THEN r.successRate ELSE Zero
    IN  IF rate(m) # Zero THEN rate(m) ELSE IF rate(d) # Zero THEN rate(d) ELSE rate(l)

InRange(x) == AmtGE(x, Zero) /\ AmtGE(Hundred, x)

\* C11: the success_rate of every record _merge_agent builds is in [0, 100],
\* whatever the raw successRate of the metrics, detail and list records
\* (negative, above 100, zero, null or missing); a raw value inside [0, 100]
\* from the highest-priority source with a non-zero value is kept unchanged,
\* a negative one becomes 0 and one above 100 becomes 100.
C11_SuccessRateClamped ==
    (args # None /\ args.fn = "_merge_agent" /\ ret # None) =>
        LET raw == RawRate(args.metrics_data, args.detail_data, args.list_data)
        IN  /\ InRange(ret.success_rate)
            /\ InRange(raw) => ret.success_rate = raw
            /\ AmtGT(Zero, raw) => ret.success_rate = Zero
            /\ AmtGT(raw, Hundred) => ret.success_rate = Hundred

C11_Witness ==
    /\ args # None /\ args.fn = "_merge_agent" /\ ret # None
    /\ args.metrics_data = [successRate |-> Zero]
    /\ args.detail_data = [id |-> 1, successRate |-> Amt(150, 0)]
    /\ args.list_data = [id |-> 1, successRate |-> Small]
    /\ ret.success_rate = Hundred

C11_WitnessKept ==
    /\ args # None /\ args.fn = "_merge_agent" /\ ret # None
    /\ args.metrics_data = [successRate |-> Amt(0, 50)]
    /\ args.detail_data = [id |-> 1, successRate |-> Amt(-5, 0)]
    /\ ret.success_rate = Amt(0, 50)

\* The case of C12: a metrics record with every metric field, list and
\* detail records with none of them.
MetricsOnly ==
    /\ args # None /\ args.fn = "_merge_agent" /\ ret # None
    /\ args.metrics_data \in FullMetricsDatas
    /\ args.list_data = [id |-> 1]
    /\ args.detail_data \in DetailDatas

\* C12 as stated: each of the six metric fields of the merged record equals
\* the metrics record's value exactly.
C12_MetricsValueExact ==
    MetricsOnly =>
        LET m == args.metrics_data
        IN  /\ ret.volume = m.volume
            /\ ret.gross_agdp = m.grossAgenticAmount
            /\ ret.revenue = m.revenue
            /\ ret.success_rate = m.successRate
            /\ ret.successful_jobs = m.successfulJobCount
            /\ ret.unique_buyers = m.uniqueBuyerCount

\* C12, amended: with the field only in the metrics record, the merged
\* volume, revenue, successful-job count and unique-buyer count equal the
\* metrics value (null counting as 0); the success rate is the metrics value
\* clamped into [0, 100]; the gross value is the metrics value unless it is
\* at the cap and the metrics volume is above it, when it is that volume.
C12_MetricsValueKept ==
    MetricsOnly =>
        LET m == args.metrics_data
            num(x) == IF x = None THEN Zero ELSE x
            capped == (m.grossAgenticAmount.whole > 99999999
                        \/ (m.grossAgenticAmount.whole = 99999999
                            /\ m.grossAgenticAmount.cents >= 99))
                      /\ m.volume.whole > 99999999
        IN  /\ ret.volume = m.volume
            /\ ret.revenue = m.revenue
            /\ ret.successful_jobs = num(m.successfulJobCount)
            /\ ret.unique_buyers = num(m.uniqueBuyerCount)
            /\ ret.success_rate =
                 IF m.successRate.whole < 0 THEN Zero
                 ELSE IF AmtGT(m.successRate, Hundred) THEN Hundred ELSE m.successRate
            /\ ret.gross_agdp = IF capped THEN m.volume ELSE m.grossAgenticAmount

C12_Witness ==
    /\ MetricsOnly
    /\ args.metrics_data.successRate = Amt(150, 0)
    /\ args.metrics_data.grossAgenticAmount = AGDP_CAP
    /\ args.metrics_data.volume = Big
    /\ args.metrics_data.successfulJobCount = Amt(7, 0)
    /\ ret.success_rate = Hundred
    /\ ret.gross_agdp = Big
    /\ ret.successful_jobs = Amt(7, 0)
(***************************************************************************)
(* The merged volume against the rank order.                               *)
(***************************************************************************)
\* C15: in the list scrape_all returns, the merged volume is non-increasing
\* in rank order: a record never has a smaller volume than a later one.
C15_VolumeNonIncreasing ==
    pc = "done" =>
        \A i, j \in DOMAIN returned.agents :
            i < j => AmtGE(returned.agents[i].volume, returned.agents[j].volume)
(***************************************************************************)
(* The lifetime of the session.                                            *)
(***************************************************************************)
\* scrape_all, or one of its tasks, stands at an HTTP request.
AtRequest ==
    \/ pc \in {"global", "list", "pages"}
    \/ pc = "fanout" /\ \E aid \in DOMAIN tasks : tasks[aid].pc \in {"detail", "metrics"}

\* A step that issues HTTP requests.
IssuesRequest ==
    \/ FetchGlobal
    \/ FetchAgents
    \/ FetchPage
    \/ \E aid \in Ids : aid \in DOMAIN tasks /\ (FetchDetail(aid) \/ FetchMetrics(aid))

\* C14: every HTTP request is issued while the session is open, and the
\* session is closed exactly when scrape_all has ended, whether it returned
\* or an exception left it in any phase (a fetch, the id maps, the merge).
C14_SessionScoped ==
    /\ [](AtRequest => session = "open")
    /\ [](pc \in {"done", "raised"} <=> session = "closed")
    /\ [](pc = "start" <=> session = "unset")
    /\ [][IssuesRequest => (session = "open" /\ session' \in {"open", "closed"})]_vars

C14_Witness ==
    /\ pc = "raised"
    /\ session = "closed"
    /\ trace = <<"global", "list", "pages", "union", "fanout", "rank", "raised in merge">>
    /\ \E aid \in DOMAIN tasks : tasks[aid].detail # None

C14_WitnessMaps ==
    /\ pc = "raised"
    /\ session = "closed"
    /\ trace = <<"global", "list", "pages", "raised in union">>

C14_WitnessReturn ==
    /\ pc = "done"
    /\ session = "closed"
    /\ Len(returned.agents) = 2
(***************************************************************************)
(* Progress of the fan-out.                                                *)
(***************************************************************************)
\* C16: with the event loop running every coroutine that can go on, every
\* fan-out task is eventually admitted, ends and gives its slot back, for
\* every number of ids and every concurrency >= 1; so once the walker has
\* met a short or empty page, scrape_all eventually ends: it returns, or an
\* ill-formed response has made it raise.
C16_FanoutProgress ==
    /\ \A aid \in Ids :
        (aid \in DOMAIN tasks /\ tasks[aid].pc = "wait")
            ~> (aid \in DOMAIN tasks /\ tasks[aid].pc \in Holding)
    /\ \A aid \in Ids :
        (aid \in DOMAIN tasks /\ tasks[aid].pc \in Holding)
            ~> (aid \in DOMAIN tasks /\ tasks[aid].pc \in Ended)
    /\ [](pc \in AfterFanout => semaphore = concurrency)
    /\ WalkerReturned ~> (pc = "done" \/ (pc = "raised" /\ malformed))
    /\ (WalkerReturned /\ pc # "raised") ~> (pc = "done" \/ agents_list = UnratedRoster
                                              \/ missing_id(metrics_list))

C16_Witness ==
    /\ pc = "done"
    /\ concurrency = 1
    /\ semaphore = 1
    /\ Cardinality(DOMAIN tasks) = 2
    /\ \A aid \in DOMAIN tasks : tasks[aid].pc = "done"
    /\ WalkerReturned
(***************************************************************************)
(* SpecFanout: scrape_all from the start of its fan-out, the answers of    *)
(* the upstream to each agent's two requests being fixed for the run.      *)
(***************************************************************************)
\* One answer, given at the first attempt.
AtOnce(body) == [i \in 1..default_max_retries |-> Ok(body)]

Upstreams ==
    {[fn |-> "scrape_all", detail |-> d, metrics |-> m] :
        d \in {f \in [Ids -> {AtOnce(b) : b \in UNION {DetailBodies(aid) : aid \in Ids}}] :
                \A aid \in Ids : f[aid] \in {AtOnce(Scalar), AtOnce(Obj([id |-> aid]))}},
        m \in {f \in [Ids -> {AtOnce(b) : b \in UNION {MetricsBodies(aid) : aid \in Ids}}] :
                \A aid \in Ids : f[aid] \in {AtOnce(b) : b \in MetricsBodies(aid) \ {Scalar}}}}

FullRoster == [k \in 1..(MaxId + 1) |-> [id |-> k - 1]]

\* The state in which BuildMaps leaves scrape_all after the full roster and
\* an empty leaderboard.
InitFanout ==
    /\ args \in Upstreams
    /\ ret = <<>>
    /\ pc = "fanout" /\ session = "open"
    /\ concurrency \in 1..MaxConcurrency
    /\ max_retries = default_max_retries
    /\ agents_list = FullRoster
    /\ page = 1 /\ metrics_list = <<>> /\ batches = <<[page |-> 1, batch |-> <<>>]>>
    /\ metrics_map = dict_by_id(metrics_list)
    /\ agents_map = dict_by_id(agents_list)
    /\ all_ids = union_ids(agents_map, metrics_map)
    /\ global_metrics = GlobalMetrics(0, Len(all_ids))
    /\ semaphore = concurrency
    /\ tasks = [aid \in {all_ids[k] : k \in DOMAIN all_ids} |->
                    [pc |-> "wait", detail |-> None, metrics |-> None]]
    /\ detail_map = EmptyDict /\ ind_metrics_map = EmptyDict
    /\ sorted_ids = <<>> /\ agent_data_list = <<>>
    /\ returned = None
    /\ trace = <<"global", "list", "pages", "union">>
    /\ malformed = FALSE

NextFanout ==
    \/ \E aid \in Ids : aid \in DOMAIN tasks /\ Acquire(aid)
    \/ \E aid \in Ids : aid \in DOMAIN tasks /\ FetchDetail(aid)
    \/ \E aid \in Ids : aid \in DOMAIN tasks /\ Sleep1(aid)
    \/ \E aid \in Ids : aid \in DOMAIN tasks /\ FetchMetrics(aid)
    \/ \E aid \in Ids : aid \in DOMAIN tasks /\ Sleep2(aid)
    \/ Gather
    \/ Rank
    \/ Merge
    \/ ReturnAll

SpecFanout == InitFanout /\ [][NextFanout]_vars

\* The event loop runs every coroutine that can go on: a request ends (the
\* attempts are bounded by max_retries and each by its timeout), a sleep
\* ends, and a waiter is woken when a slot is free.
FairFanout ==
    /\ SpecFanout
    /\ WF_vars(MainStep)
    /\ \A aid \in Ids : WF_vars(TaskStep(aid))

\* What the task of an agent yields, from the upstream's fixed answers alone.
TaskOutcome(aid) ==
    LET dr == fetch_agent_detail(_get(args.detail[aid], max_retries).result)
        mr == fetch_agent_metrics(_get(args.metrics[aid], max_retries).result)
    IN  IF dr.raised \/ mr.raised
        THEN [exception |-> TRUE, detail |-> None, metrics |-> None]
        ELSE [exception |-> FALSE, detail |-> dr.value, metrics |-> mr.value]

FixedDetailMap ==
    [aid \in {a \in DOMAIN tasks : DictTruthy(TaskOutcome(a).detail)} |->
        TaskOutcome(aid).detail]
FixedMetricsMap ==
    [aid \in {a \in DOMAIN tasks : DictTruthy(TaskOutcome(a).metrics)} |->
        TaskOutcome(aid).metrics]
FixedKey(aid) ==
    LET own == Get(Get(FixedMetricsMap, aid, EmptyDict), "volume", Zero)
    IN  IF own # Zero THEN own ELSE Get(Get(metrics_map, aid, EmptyDict), "volume", Zero)

\* C13: the result of scrape_all is a function of the upstream's answers,
\* whatever the order in which the tasks are admitted and end: the detail
\* mapping, the per-agent metrics mapping and the ranked list of merged
\* records are those the fixed answers determine; the two mappings are
\* empty until every task has ended and hold at most one key per agent id.
C13_OrderIndependent ==
    /\ pc = "fanout" => (detail_map = EmptyDict /\ ind_metrics_map = EmptyDict)
    /\ pc \in AfterFanout =>
        /\ Len(ret) = Cardinality(DOMAIN tasks)
        /\ detail_map = FixedDetailMap
        /\ ind_metrics_map = FixedMetricsMap
        /\ DOMAIN detail_map \subseteq DOMAIN tasks
        /\ DOMAIN ind_metrics_map \subseteq DOMAIN tasks
    /\ pc = "done" =>
        /\ Len(returned.agents) = Len(all_ids)
        /\ \A i, j \in DOMAIN returned.agents :
            i < j =>
                LET a == returned.agents[i].agent_id
                    b == returned.agents[j].agent_id
                IN  \/ AmtGT(FixedKey(a), FixedKey(b))
                    \/ (FixedKey(a) = FixedKey(b) /\ a < b)
        /\ \A k \in DOMAIN returned.agents :
            \E aid \in DOMAIN tasks :
                returned.agents[k] =
                    merge_one(k, aid, agents_map, metrics_map, FixedMetricsMap, FixedDetailMap)

\* The task of agent 1 ended before that of agent 0, and the two agents tie.
C13_Witness ==
    /\ pc = "done"
    /\ Len(ret) >= 2 /\ ret[1] = 1 /\ ret[2] = 0
    /\ FixedKey(0) = FixedKey(1)
    /\ returned.agents[1].agent_id = 0
    /\ returned.agents[2].agent_id = 1
    /\ 0 \in DOMAIN ind_metrics_map /\ 0 \in DOMAIN detail_map
====
